---- MODULE Spec2Model ----
(***************************************************************************)
(* Causal graphical models (causalgraphicalmodels/cgm.py): construction of *)
(* a CausalGraphicalModel, the do-operator, d-separation and the backdoor  *)
(* and frontdoor adjustment-set tests, the list of independence            *)
(* relationships; structural causal models (causalgraphicalmodels/csm.py): *)
(* construction from an assignment and the do-operator.                    *)
(*                                                                         *)
(* One behaviour is one constructor call followed by calls made on the     *)
(* object it returned; do() replaces the object at hand by the one it      *)
(* returns and records the receiver as it was before and after the call.   *)
(* Node identifiers are user names; the synthetic names "Unobserved_k" of  *)
(* latent confounders are never used as user names, edges and latent edges *)
(* join declared nodes and set nodes are declared nodes.                   *)
(***************************************************************************)
EXTENDS Integers, Sequences, FiniteSets, TLC

VARIABLES
    built,        \* TRUE once the constructor has returned an object
    cgm,          \* the CausalGraphicalModel at hand (NoObject before)
    last,         \* the last call: its name, arguments and outcome
    scm           \* the StructuralCausalModel at hand (NoModel before)

vars == <<built, cgm, last, scm>>

\* ------------------------------------------------------------------ bounds

\* the user's node names
Universe == {"w", "x", "y", "z"}
\* the constructor's `edges` and `latent_edges` hold at most this many pairs
\* together
MaxLinks == 3
\* at most this many nodes in the constructor's `set_nodes`
MaxSetNodes == 1

\* ------------------------------------------------------- networkx helpers

\* nx.DiGraph: G[n], the successors of n
Successors(G, n) == {e[2] : e \in {d \in G.edges : d[1] = n}}

\* nx.DiGraph.predecessors(n)
Predecessors(G, n) == {e[1] : e \in {d \in G.edges : d[2] = n}}

\* nx.DiGraph.has_edge(a, b)
HasEdge(G, a, b) == <<a, b>> \in G.edges

\* nx.descendants(G, n): breadth-first search from n, n itself excluded
RECURSIVE Reach(_, _, _)
Reach(G, frontier, seen) ==
    LET next == UNION {Successors(G, n) : n \in frontier} \ seen
    IN  IF next = {} THEN seen ELSE Reach(G, next, seen \cup next)

Descendants(G, n) == Reach(G, {n}, {}) \ {n}

\* nx.ancestors(G, n): the same search along reversed edges
RECURSIVE ReachBack(_, _, _)
ReachBack(G, frontier, seen) ==
    LET next == UNION {Predecessors(G, n) : n \in frontier} \ seen
    IN  IF next = {} THEN seen ELSE ReachBack(G, next, seen \cup next)

Ancestors(G, n) == ReachBack(G, {n}, {}) \ {n}

\* nx.is_directed_acyclic_graph(G): a topological sort consumes every node
RECURSIVE Peel(_, _)
Peel(G, left) ==
    LET sources == {n \in left : Predecessors(G, n) \cap left = {}}
    IN  IF sources = {} THEN left ELSE Peel(G, left \ sources)

IsDirectedAcyclicGraph(G) == Peel(G, G.nodes) = {}

\* nx.DiGraph.to_undirected(): each edge in both directions
ToUndirected(G) ==
    [nodes |-> G.nodes,
     edges |-> G.edges \cup {<<e[2], e[1]>> : e \in G.edges}]

\* nx.all_simple_paths(G, source, target), source # target: depth-first
\* search that extends `visited` by a neighbour not on it and yields when
\* the neighbour is the target.  The order of the paths is the adjacency
\* order and is not modelled: the result is the set of paths.
RECURSIVE SimplePathsFrom(_, _, _)
SimplePathsFrom(G, visited, target) ==
    UNION {IF child = target
              THEN {Append(visited, child)}
              ELSE IF child \in {visited[i] : i \in DOMAIN visited}
                      THEN {}
                      ELSE SimplePathsFrom(G, Append(visited, child), target)
           : child \in Successors(G, visited[Len(visited)])}

AllSimplePaths(G, source, target) == SimplePathsFrom(G, <<source>>, target)

\* ------------------------------------------------------------ constructor

\* "Unobserved_{}".format(unobserved_variable_counter)
UnobservedName(k) ==
    CASE k = 0 -> "Unobserved_0"
      [] k = 1 -> "Unobserved_1"
      [] k = 2 -> "Unobserved_2"
      [] k = 3 -> "Unobserved_3"

\* the orders in which a frozenset of latent edges can be iterated
Orders(S) ==
    {o \in [1..Cardinality(S) -> S] :
        \A i, j \in 1..Cardinality(S) : i # j => o[i] # o[j]}

NoObject ==
    [observed_variables |-> {}, set_nodes |-> {}, latent_edges |-> {},
     unobserved_variables |-> {}, unobserved_variable_edges |-> {},
     dag |-> [nodes |-> {}, edges |-> {}],
     graph |-> [nodes |-> {}, edges |-> {}]]

\* __init__ up to the assertions: the fields of the object under construction;
\* `order` is the iteration order of self.latent_edges
Fields(nodes, edges, latent_edges, set_nodes, order) ==
    LET n == Len(order)
        unobserved == {UnobservedName(k) : k \in 0..(n - 1)}
        \* add_edges_from and add_edge add the end points they do not find
        dag == [nodes |-> nodes \cup unobserved
                          \cup {e[1] : e \in edges} \cup {e[2] : e \in edges}
                          \cup {order[k][1] : k \in 1..n}
                          \cup {order[k][2] : k \in 1..n},
                edges |-> edges
                          \cup {<<UnobservedName(k - 1), order[k][1]>> : k \in 1..n}
                          \cup {<<UnobservedName(k - 1), order[k][2]>> : k \in 1..n}]
    IN  [observed_variables |-> nodes,
         set_nodes |-> set_nodes,
         latent_edges |-> latent_edges,
         unobserved_variables |-> unobserved,
         unobserved_variable_edges |->
             {<<UnobservedName(k - 1), order[k]>> : k \in 1..n},
         dag |-> dag,
         graph |-> ToUndirected(dag)]

\* SetNodesHaveNoAncestors looking at the declared edges only
SetNodesHaveNoObservedAncestors(obj) ==
    \A set_node \in obj.set_nodes :
        Ancestors(obj.dag, set_node) \cap obj.observed_variables = {}

\* the two assertions of __init__
SetNodesHaveNoAncestors(obj) ==
    \A set_node \in obj.set_nodes : Ancestors(obj.dag, set_node) = {}

InitRaises(obj) ==
    IF ~ IsDirectedAcyclicGraph(obj.dag) THEN "AssertionError"
    ELSE IF ~ SetNodesHaveNoAncestors(obj) THEN "AssertionError"
    ELSE "none"

\* CausalGraphicalModel(nodes, edges, latent_edges, set_nodes)
New(nodes, edges, latent_edges, set_nodes, order) ==
    LET obj == Fields(nodes, edges, latent_edges, set_nodes, order)
    IN  [raised |-> InitRaises(obj), obj |-> obj]

\* ------------------------------------------------------------------- do()

\* the arguments do(node) passes to the constructor
DoSetNodes(self, node) == self.set_nodes \cup {node}

DoEdges(self, node) ==
    {e \in self.dag.edges :
        /\ e[2] # node
        /\ e[1] \in self.observed_variables
        /\ e[2] \in self.observed_variables}

\* DoLatentEdges keeping the latent edges of the receiver
DoLatentEdgesKept(self, node) == self.latent_edges

DoLatentEdges(self, node) ==
    {e \in self.latent_edges :
        /\ e[1] \notin DoSetNodes(self, node)
        /\ e[2] \notin DoSetNodes(self, node)}

\* DoReceiver for a do() that marks the node on the receiver itself
DoReceiverMarked(self, node) ==
    [self EXCEPT !.set_nodes = self.set_nodes \cup {node}]

\* what do() leaves of the receiver: it only reads self
DoReceiver(self, node) == self

\* ----------------------------------------------------------- d-separation

\* the arguments _variable_or_iterable_to_set accepts: None, a string, an
\* iterable of strings
NoneArg == [kind |-> "None", value |-> {}]
StrArg(name) == [kind |-> "str", value |-> name]
SetArg(names) == [kind |-> "iterable", value |-> names]

\* _variable_or_iterable_to_set(x)
VariableOrIterableToSet(x) ==
    CASE x.kind = "None" -> {}
      [] x.kind = "str" -> {x.value}
      [] x.kind = "iterable" -> x.value

\* ClassifyThreeStructure without the chain read from c to a
ClassifyThreeStructureOneWay(self, a, b, c) ==
    IF HasEdge(self.dag, a, b) /\ HasEdge(self.dag, b, c) THEN "chain"
    ELSE IF HasEdge(self.dag, a, b) /\ HasEdge(self.dag, c, b) THEN "collider"
    ELSE IF HasEdge(self.dag, b, a) /\ HasEdge(self.dag, b, c) THEN "fork"
    ELSE "ValueError"

\* _classify_three_structure(a, b, c)
ClassifyThreeStructure(self, a, b, c) ==
    IF HasEdge(self.dag, a, b) /\ HasEdge(self.dag, b, c) THEN "chain"
    ELSE IF HasEdge(self.dag, c, b) /\ HasEdge(self.dag, b, a) THEN "chain"
    ELSE IF HasEdge(self.dag, a, b) /\ HasEdge(self.dag, c, b) THEN "collider"
    ELSE IF HasEdge(self.dag, b, a) /\ HasEdge(self.dag, b, c) THEN "fork"
    ELSE "ValueError"

\* ColliderBlocks looking at b only, not at its descendants
ColliderBlocksIgnoringDescendants(self, b, zs) == b \notin zs

\* the collider test of _check_d_separation: neither b nor a descendant
\* of b is in zs
ColliderBlocks(self, b, zs) ==
    (Descendants(self.dag, b) \cup {b}) \cap zs = {}

\* the loop of _check_d_separation over the triples path[i], path[i+1],
\* path[i+2]: "True" at the first triple that blocks, "False" when none does
RECURSIVE CheckTriplesFrom(_, _, _, _)
CheckTriplesFrom(self, path, zs, i) ==
    IF i > Len(path) - 2 THEN "False"
    ELSE LET b == path[i + 1]
             structure == ClassifyThreeStructure(self, path[i], b, path[i + 2])
         IN  IF structure = "ValueError" THEN "ValueError"
             ELSE IF structure \in {"chain", "fork"} /\ b \in zs THEN "True"
             ELSE IF structure = "collider" /\ ColliderBlocks(self, b, zs)
                  THEN "True"
             ELSE CheckTriplesFrom(self, path, zs, i + 1)

\* _check_d_separation(path, zs), zs a frozenset
CheckDSeparation(self, path, zs) ==
    IF Len(path) < 3 THEN "False"
    ELSE CheckTriplesFrom(self, path, VariableOrIterableToSet(SetArg(zs)), 1)

\* all(self._check_d_separation(path, z) for path in paths); a ValueError of
\* _classify_three_structure on any of the paths is reported
AllChecked(self, paths, zs) ==
    LET checks == {CheckDSeparation(self, path, zs) : path \in paths}
    IN  IF "ValueError" \in checks THEN [raised |-> "ValueError", ret |-> FALSE]
        ELSE [raised |-> "none", ret |-> "False" \notin checks]

\* is_d_separated(x, y, zs)
IsDSeparated(self, x, y, zs) ==
    LET z == VariableOrIterableToSet(zs)
    IN  IF \/ x \notin self.observed_variables
           \/ y \notin self.observed_variables
           \/ ~ (z \subseteq self.observed_variables)
        THEN [raised |-> "AssertionError", ret |-> FALSE]
        ELSE AllChecked(self, AllSimplePaths(self.graph, x, y), z)

\* ------------------------------------------------ independence relationships

\* itertools.combinations(pool, r): the r-length subsequences of pool, those
\* that start with the first element first
RECURSIVE Combinations(_, _)
Combinations(pool, r) ==
    IF r = 0 THEN << <<>> >>
    ELSE IF Len(pool) < r THEN << >>
    ELSE LET rest == Combinations(Tail(pool), r - 1)
         IN  [i \in 1..Len(rest) |-> <<Head(pool)>> \o rest[i]]
                 \o Combinations(Tail(pool), r)

\* the concatenation of a sequence of sequences: the nested for loops
RECURSIVE Chained(_)
Chained(seqs) ==
    IF seqs = << >> THEN << >> ELSE Head(seqs) \o Chained(Tail(seqs))

\* RemainingVariables taking out x only
RemainingVariablesButX(order, x, y) ==
    SelectSeq(order, LAMBDA v : v # x)

\* remaining_variables = set(self.observed_variables) - {x, y}, in the order
\* in which it is iterated; that order is taken to follow the iteration order
\* of observed_variables and bears on the order of the entries only
RemainingVariables(order, x, y) ==
    SelectSeq(order, LAMBDA v : v \notin {x, y})

\* the calls is_d_separated(x, y, frozenset(z)) of
\* get_all_independence_relationships in the order they are made, each as
\* the tuple (x, y, set(z)); `order` is the iteration order of
\* self.observed_variables
IndependenceCalls(order) ==
    LET pairs == Combinations(order, 2)
        ofPair(p) ==
            LET remaining_variables == RemainingVariables(order, p[1], p[2])
                zs == Chained([c \in 1..(Len(remaining_variables) + 1) |->
                                  Combinations(remaining_variables, c - 1)])
            IN  [j \in 1..Len(zs) |->
                    <<p[1], p[2], {zs[j][k] : k \in 1..Len(zs[j])}>>]
    IN  Chained([i \in 1..Len(pairs) |-> ofPair(pairs[i])])

\* get_all_independence_relationships(); an error raised by a call of
\* is_d_separated is reported
GetAllIndependenceRelationships(self, order) ==
    LET calls == IndependenceCalls(order)
        result == [i \in 1..Len(calls) |->
                      IsDSeparated(self, calls[i][1], calls[i][2],
                                   SetArg(calls[i][3]))]
        kept == {i \in 1..Len(calls) : result[i].ret}
        \* the i-th smallest index kept
        RECURSIVE Nth(_, _)
        Nth(left, i) ==
            LET least == CHOOSE k \in left : \A m \in left : k <= m
            IN  IF i = 1 THEN least ELSE Nth(left \ {least}, i - 1)
    IN  IF \E i \in 1..Len(calls) : result[i].raised # "none"
        THEN [raised |-> (CHOOSE e \in {result[i].raised : i \in 1..Len(calls)} :
                             e # "none"),
              ret |-> << >>]
        ELSE [raised |-> "none",
              ret |-> [i \in 1..Cardinality(kept) |-> calls[Nth(kept, i)]]]

\* ---------------------------------------------------- backdoor adjustment

\* GetAllBackdoorPaths keeping the paths of observed variables only
GetAllBackdoorPathsObservedOnly(self, x, y) ==
    {path \in AllSimplePaths(self.graph, x, y) :
        /\ Len(path) > 2
        /\ path[2] \in Predecessors(self.dag, x)
        /\ \A i \in DOMAIN path : path[i] \in self.observed_variables}

\* get_all_backdoor_paths(x, y)
GetAllBackdoorPaths(self, x, y) ==
    {path \in AllSimplePaths(self.graph, x, y) :
        /\ Len(path) > 2
        /\ path[2] \in Predecessors(self.dag, x)}

\* BackdoorArgumentsOk without the assertion on y
BackdoorArgumentsOkWithoutOutcome(self, x, y, z) ==
    /\ x \in self.observed_variables
    /\ y \in self.observed_variables
    /\ x \notin z

\* the four assertions of is_valid_backdoor_adjustment_set
BackdoorArgumentsOk(self, x, y, z) ==
    /\ x \in self.observed_variables
    /\ y \in self.observed_variables
    /\ x \notin z
    /\ y \notin z

\* is_valid_backdoor_adjustment_set(x, y, z)
IsValidBackdoorAdjustmentSet(self, x, y, zarg) ==
    LET z == VariableOrIterableToSet(zarg)
    IN  IF ~ BackdoorArgumentsOk(self, x, y, z)
        THEN [raised |-> "AssertionError", ret |-> FALSE]
        ELSE IF \E zz \in z : zz \in Descendants(self.dag, x)
        THEN [raised |-> "none", ret |-> FALSE]
        ELSE AllChecked(self, GetAllBackdoorPaths(self, x, y), z)

\* PossibleAdjustmentVariables leaving out the ancestors of x
PossibleAdjustmentVariablesNoAncestors(self, x, y) ==
    ((self.observed_variables \ {x}) \ {y}) \ Ancestors(self.dag, x)

\* possible_adjustment_variables of get_all_backdoor_adjustment_sets
PossibleAdjustmentVariables(self, x, y) ==
    ((self.observed_variables \ {x}) \ {y}) \ Descendants(self.dag, x)

\* get_all_backdoor_adjustment_sets(x, y); _powerset is SUBSET
GetAllBackdoorAdjustmentSets(self, x, y) ==
    IF x \notin self.observed_variables \/ y \notin self.observed_variables
    THEN [raised |-> "AssertionError", ret |-> {}]
    ELSE LET tried == [s \in SUBSET PossibleAdjustmentVariables(self, x, y) |->
                          IsValidBackdoorAdjustmentSet(self, x, y, SetArg(s))]
         IN  IF \E s \in DOMAIN tried : tried[s].raised # "none"
             THEN [raised |-> (CHOOSE e \in {tried[s].raised : s \in DOMAIN tried} :
                                  e # "none"),
                   ret |-> {}]
             ELSE [raised |-> "none",
                   ret |-> {s \in DOMAIN tried : tried[s].ret}]

\* --------------------------------------------------- frontdoor adjustment

\* step 1 of is_valid_frontdoor_adjustment_set: the directed paths from x to
\* y that hold no member of z
UnblockedDirectedPaths(self, x, y, z) ==
    {path \in AllSimplePaths(self.dag, x, y) :
        ~ \E zz \in z : zz \in {path[i] : i \in DOMAIN path}}

\* step 2: the checks of the backdoor paths from x to each zz against z - {zz}
BackdoorChecksXZ(self, x, z) ==
    UNION {{CheckDSeparation(self, path, z \ {zz}) :
               path \in GetAllBackdoorPaths(self, x, zz)} : zz \in z}

\* step 3: is_valid_backdoor_adjustment_set(zz, y, x) for each zz; x is
\* passed as it is, a string
BackdoorResultsZY(self, x, y, z) ==
    {IsValidBackdoorAdjustmentSet(self, zz, y, StrArg(x)) : zz \in z}

\* is_valid_frontdoor_adjustment_set(x, y, z); an error raised in a step
\* that is reached is reported
IsValidFrontdoorAdjustmentSet(self, x, y, zarg) ==
    LET z == VariableOrIterableToSet(zarg)
        results == BackdoorResultsZY(self, x, y, z)
    IN  IF UnblockedDirectedPaths(self, x, y, z) # {}
        THEN [raised |-> "none", ret |-> FALSE]
        ELSE IF "ValueError" \in BackdoorChecksXZ(self, x, z)
        THEN [raised |-> "ValueError", ret |-> FALSE]
        ELSE IF "False" \in BackdoorChecksXZ(self, x, z)
        THEN [raised |-> "none", ret |-> FALSE]
        ELSE IF \E r \in results : r.raised # "none"
        THEN [raised |-> (CHOOSE e \in {r.raised : r \in results} : e # "none"),
              ret |-> FALSE]
        ELSE [raised |-> "none", ret |-> \A r \in results : r.ret]

\* ------------------------------------------------ structural causal models

\* the variable names of the assignments: strings of one character and of
\* two
VariableNames == {"a", "b", "ab"}

\* the characters of a name, what iterating the string yields
Characters(name) ==
    CASE name = "a" -> <<"a">>
      [] name = "b" -> <<"b">>
      [] name = "ab" -> <<"a", "b">>

\* the values of an assignment: None, or a CausalAssignmentModel with its
\* parents (a callable is replaced by one, its parents read from its
\* signature); a value of another kind is not given
NoneModel == [kind |-> "None", parents |-> {}]
CausalAssignmentModel(parents) ==
    [kind |-> "CausalAssignmentModel", parents |-> parents]

NoModel == [assignment |-> [n \in {} |-> NoneModel], cgm |-> NoObject]

\* nodes, set_nodes and edges as StructuralCausalModel.__init__ collects them
AssignmentNodes(assignment) == DOMAIN assignment

AssignmentSetNodes(assignment) ==
    {node \in DOMAIN assignment : assignment[node].kind = "None"}

AssignmentEdges(assignment) ==
    UNION {{<<parent, node>> : parent \in assignment[node].parents} :
              node \in DOMAIN assignment \ AssignmentSetNodes(assignment)}

\* `for n1, n2 in self.latent_edges` of CausalGraphicalModel.__init__ over
\* strings: a string unpacks into n1, n2 when it has two characters
UnpackRaises(latent_edges) ==
    IF \E e \in latent_edges : Len(Characters(e)) # 2
    THEN "ValueError" ELSE "none"

\* CausalGraphicalModel(nodes, edges, set_nodes) as __init__ of
\* StructuralCausalModel calls it: the third positional parameter of the
\* constructor is latent_edges, and its set_nodes stays None; `order` is the
\* iteration order of the frozenset of the strings
NewPositional(nodes, edges, third, order) ==
    IF UnpackRaises(third) # "none"
    THEN [raised |-> UnpackRaises(third), obj |-> NoObject]
    ELSE New(nodes, edges, third, {},
             [k \in 1..Len(order) |-> Characters(order[k])])

\* StructuralCausalModel(assignment)
NewModel(assignment, order) ==
    LET r == NewPositional(AssignmentNodes(assignment),
                           AssignmentEdges(assignment),
                           AssignmentSetNodes(assignment), order)
    IN  [raised |-> r.raised,
         obj |-> [assignment |-> assignment, cgm |-> r.obj]]

\* new_assignment of StructuralCausalModel.do(node)
DoAssignment(self, node) == [self.assignment EXCEPT ![node] = NoneModel]

\* ---------------------------------------------------------------- actions

Init ==
    /\ built = FALSE
    /\ cgm = NoObject
    /\ last = [op |-> "init"]
    /\ scm = NoModel

EdgeInputs == {E \in SUBSET (Universe \X Universe) : Cardinality(E) <= MaxLinks}
\* each confounded pair is given once, in the order of the names
Rank == [n \in Universe |->
            CASE n = "w" -> 1 [] n = "x" -> 2 [] n = "y" -> 3 [] n = "z" -> 4]
LatentInputs ==
    {L \in SUBSET {p \in Universe \X Universe : Rank[p[1]] < Rank[p[2]]} :
        Cardinality(L) <= MaxLinks}

SetNodeInputs == {S \in SUBSET Universe : Cardinality(S) <= MaxSetNodes}

Construct ==
    /\ last.op = "init"
    /\ UNCHANGED scm
    /\ \E edges \in EdgeInputs, latent_edges \in LatentInputs,
          set_nodes \in SetNodeInputs :
         /\ Cardinality(edges) + Cardinality(latent_edges) <= MaxLinks
         /\ \E order \in Orders(latent_edges) :
           LET r == New(Universe, edges, latent_edges, set_nodes, order)
           IN  /\ built' = (r.raised = "none")
               /\ cgm' = IF r.raised = "none" THEN r.obj ELSE NoObject
               /\ last' = [op |-> "construct", edges |-> edges,
                           latent_edges |-> latent_edges,
                           set_nodes |-> set_nodes, raised |-> r.raised]

\* the nodes passed to do() by the calls that led to the object at hand
Intervened == IF last.op = "do" THEN last.intervened ELSE {}

Do ==
    /\ built
    /\ last.op \in {"construct", "do"}
    /\ \E node \in cgm.observed_variables :
         \E order \in Orders(DoLatentEdges(cgm, node)) :
           LET r == New(cgm.observed_variables, DoEdges(cgm, node),
                        DoLatentEdges(cgm, node), DoSetNodes(cgm, node), order)
           IN  /\ cgm' = IF r.raised = "none" THEN r.obj ELSE cgm
               /\ last' = [op |-> "do", node |-> node, raised |-> r.raised,
                           before |-> cgm, after |-> DoReceiver(cgm, node),
                           intervened |-> Intervened \cup {node}]
    /\ UNCHANGED <<built, scm>>

\* The queries are asked of the treatment "x" and the outcome "y": every
\* graph on Universe is constructed, so a query on two other names is the
\* same query on the graph with the names exchanged.  The two are distinct:
\* nx.all_simple_paths(G, x, x) differs between networkx releases.  A query
\* reads the object only and do() returns an object of the constructor, so
\* a query is taken right after the constructor.
Treatments == {"x"}
Outcomes == {"y"}

QueryIsDSeparated ==
    /\ built
    /\ last.op = "construct"
    /\ \E x \in Treatments, y \in Outcomes,
          zs \in {NoneArg} \cup {SetArg(S) : S \in SUBSET cgm.observed_variables} :
         /\ x # y
         /\ LET r == IsDSeparated(cgm, x, y, zs)
            IN  last' = [op |-> "is_d_separated", x |-> x, y |-> y,
                         arg |-> zs.kind, z |-> VariableOrIterableToSet(zs),
                         raised |-> r.raised, ret |-> r.ret]
    /\ UNCHANGED <<built, cgm, scm>>

QueryGetAllBackdoorPaths ==
    /\ built
    /\ last.op = "construct"
    /\ \E x \in Treatments, y \in Outcomes :
         /\ x # y
         /\ last' = [op |-> "get_all_backdoor_paths", x |-> x, y |-> y,
                     raised |-> "none", ret |-> GetAllBackdoorPaths(cgm, x, y)]
    /\ UNCHANGED <<built, cgm, scm>>

QueryIsValidBackdoorAdjustmentSet ==
    /\ built
    /\ last.op = "construct"
    /\ \E x \in Treatments, y \in Outcomes,
          z \in SUBSET cgm.observed_variables :
         /\ x # y
         /\ LET r == IsValidBackdoorAdjustmentSet(cgm, x, y, SetArg(z))
            IN  last' = [op |-> "is_valid_backdoor_adjustment_set",
                         x |-> x, y |-> y, z |-> z,
                         raised |-> r.raised, ret |-> r.ret]
    /\ UNCHANGED <<built, cgm, scm>>

QueryGetAllBackdoorAdjustmentSets ==
    /\ built
    /\ last.op = "construct"
    /\ \E x \in Treatments, y \in Outcomes :
         /\ x # y
         /\ LET r == GetAllBackdoorAdjustmentSets(cgm, x, y)
            IN  last' = [op |-> "get_all_backdoor_adjustment_sets",
                         x |-> x, y |-> y,
                         raised |-> r.raised, ret |-> r.ret]
    /\ UNCHANGED <<built, cgm, scm>>

QueryIsValidFrontdoorAdjustmentSet ==
    /\ built
    /\ last.op = "construct"
    /\ \E x \in Treatments, y \in Outcomes :
         /\ x # y
         /\ \E z \in SUBSET (cgm.observed_variables \ {x, y}) :
              LET r == IsValidFrontdoorAdjustmentSet(cgm, x, y, SetArg(z))
              IN  last' = [op |-> "is_valid_frontdoor_adjustment_set",
                           x |-> x, y |-> y, z |-> z,
                           raised |-> r.raised, ret |-> r.ret]
    /\ UNCHANGED <<built, cgm, scm>>

\* The order in which observed_variables, a frozenset of strings, is
\* iterated: the order of the names.  Every graph on Universe is constructed,
\* so iterating in another order is the same as iterating in this one on the
\* graph with the names exchanged.
IterationOrders(S) ==
    {o \in Orders(S) : \A i, j \in DOMAIN o : i < j => Rank[o[i]] < Rank[o[j]]}

\* get_all_independence_relationships() takes no argument
QueryGetAllIndependenceRelationships ==
    /\ built
    /\ last.op = "construct"
    /\ \E order \in IterationOrders(cgm.observed_variables) :
         LET r == GetAllIndependenceRelationships(cgm, order)
         IN  last' = [op |-> "get_all_independence_relationships",
                      raised |-> r.raised, ret |-> r.ret]
    /\ UNCHANGED <<built, cgm, scm>>

\* the assignments given to StructuralCausalModel: each variable is None or
\* has parents among the variables
AssignmentInputs ==
    UNION {[keys -> {NoneModel} \cup {CausalAssignmentModel(parents) :
                                         parents \in SUBSET keys}] :
              keys \in SUBSET VariableNames}

ConstructModel ==
    /\ last.op = "init"
    /\ \E assignment \in AssignmentInputs :
         \E order \in Orders(AssignmentSetNodes(assignment)) :
           LET r == NewModel(assignment, order)
           IN  /\ scm' = IF r.raised = "none" THEN r.obj ELSE NoModel
               /\ last' = [op |-> "StructuralCausalModel",
                           assignment |-> assignment, raised |-> r.raised]
    /\ UNCHANGED <<built, cgm>>

\* do(node) on the model at hand, for a node of it; the model returned
\* replaces the one at hand
DoModel ==
    /\ last.op \in {"StructuralCausalModel", "StructuralCausalModel.do"}
    /\ last.op = "StructuralCausalModel" => last.raised = "none"
    /\ \E node \in DOMAIN scm.assignment :
         \E order \in Orders(AssignmentSetNodes(DoAssignment(scm, node))) :
           LET r == NewModel(DoAssignment(scm, node), order)
           IN  /\ scm' = IF r.raised = "none" THEN r.obj ELSE scm
               /\ last' = [op |-> "StructuralCausalModel.do", node |-> node,
                           raised |-> r.raised, before |-> scm]
    /\ UNCHANGED <<built, cgm>>

Next ==
    \/ Construct
    \/ Do
    \/ QueryIsDSeparated
    \/ QueryGetAllBackdoorPaths
    \/ QueryIsValidBackdoorAdjustmentSet
    \/ QueryGetAllBackdoorAdjustmentSets
    \/ QueryIsValidFrontdoorAdjustmentSet
    \/ ConstructModel
    \/ DoModel

Spec == Init /\ [][Next]_vars

\* get_all_independence_relationships() asks is_d_separated of every pair
\* and every conditioning set; its behaviours, the constructor followed by
\* the call, are explored on their own
NextRelationships ==
    \/ Construct
    \/ QueryGetAllIndependenceRelationships

SpecRelationships == Init /\ [][NextRelationships]_vars

\* ------------------------------------------- the vocabulary of the claims
\* Graph notions as the specification states them, from the directed edge
\* relation alone.

Arrow(obj, a, b) == <<a, b>> \in obj.dag.edges

ParentsOf(obj, n) == {a \in obj.dag.nodes : Arrow(obj, a, n)}

\* the transitive closure of a relation, one intermediate node at a time
RECURSIVE Closure(_, _)
Closure(R, via) ==
    IF via = {} THEN R
    ELSE LET k == CHOOSE n \in via : TRUE
             through == {<<q[1][1], q[2][2]>> :
                            q \in {r \in R \X R : r[1][2] = k /\ r[2][1] = k}}
         IN  Closure(R \cup through, via \ {k})

\* d is a descendant of b: a directed path of one edge or more leads from b to d
DescendantsOf(obj, b) ==
    {d \in obj.dag.nodes : <<b, d>> \in Closure(obj.dag.edges, obj.dag.nodes)}

\* an edge of the undirected shadow graph
Adjacent(obj, a, b) == Arrow(obj, a, b) \/ Arrow(obj, b, a)

OnPath(p, v) == \E i \in DOMAIN p : p[i] = v

\* the sequences of k distinct nodes from x on, consecutive ones adjacent
RECURSIVE PathsOfSize(_, _, _)
PathsOfSize(obj, x, k) ==
    IF k = 1 THEN {<<x>>}
    ELSE {Append(q[1], q[2]) :
             q \in {r \in PathsOfSize(obj, x, k - 1) \X obj.dag.nodes :
                       /\ ~ OnPath(r[1], r[2])
                       /\ Adjacent(obj, r[1][Len(r[1])], r[2])}}

\* the simple paths between x and y in the undirected shadow graph
PathsBetween(obj, x, y) ==
    {p \in UNION {PathsOfSize(obj, x, k) : k \in 2..Cardinality(obj.dag.nodes)} :
        p[Len(p)] = y}

\* the directed paths from x to y
DirectedPathsBetween(obj, x, y) ==
    {p \in PathsBetween(obj, x, y) :
        \A i \in 1..(Len(p) - 1) : Arrow(obj, p[i], p[i + 1])}

IsChain(obj, a, b, c) ==
    \/ Arrow(obj, a, b) /\ Arrow(obj, b, c)
    \/ Arrow(obj, c, b) /\ Arrow(obj, b, a)
IsFork(obj, a, b, c) == Arrow(obj, b, a) /\ Arrow(obj, b, c)
IsCollider(obj, a, b, c) == Arrow(obj, a, b) /\ Arrow(obj, c, b)

\* the path-blocking rule of d-separation
Blocked(obj, p, Z) ==
    /\ Len(p) >= 3
    /\ \E i \in 1..(Len(p) - 2) :
         LET a == p[i]
             b == p[i + 1]
             c == p[i + 2]
         IN  \/ /\ IsChain(obj, a, b, c) \/ IsFork(obj, a, b, c)
                /\ b \in Z
             \/ /\ IsCollider(obj, a, b, c)
                /\ b \notin Z
                /\ DescendantsOf(obj, b) \cap Z = {}

\* the backdoor paths from x to y: the simple paths whose second node is a
\* parent of x
BackdoorPathsBetween(obj, x, y) ==
    {p \in PathsBetween(obj, x, y) : p[2] \in ParentsOf(obj, x)}

\* the backdoor criterion
BackdoorValid(obj, x, y, Z) ==
    /\ Z \cap DescendantsOf(obj, x) = {}
    /\ \A p \in BackdoorPathsBetween(obj, x, y) : Blocked(obj, p, Z)

\* the frontdoor criterion
FrontdoorValid(obj, x, y, Z) ==
    /\ \A p \in DirectedPathsBetween(obj, x, y) : \E zz \in Z : OnPath(p, zz)
    /\ \A zz \in Z :
         \A p \in BackdoorPathsBetween(obj, x, zz) : Blocked(obj, p, Z \ {zz})
    /\ \A zz \in Z : BackdoorValid(obj, zz, y, {x})

\* x and y are joined by a latent confounder edge
Confounded(obj, x, y) ==
    \E e \in obj.latent_edges : {e[1], e[2]} = {x, y}

\* ----------------------------------------------------------------- claims

\* C1: is_d_separated(x, y, Z) returns true iff every simple path between x
\* and y in the undirected shadow graph is blocked by Z.
C1_DSeparatedIffEveryPathBlocked ==
    last.op = "is_d_separated" =>
        /\ last.raised = "none"
        /\ last.ret <=> \A p \in PathsBetween(cgm, last.x, last.y) :
                           Blocked(cgm, p, last.z)

\* C1 witness: a d-separation that rests on two paths or more, one of them
\* blocked at a collider, under a non-empty conditioning set
C1_Witness ==
    /\ last.op = "is_d_separated"
    /\ last.ret
    /\ last.z # {}
    /\ Cardinality(PathsBetween(cgm, last.x, last.y)) >= 2
    /\ \E p \in PathsBetween(cgm, last.x, last.y) :
         \E i \in 1..(Len(p) - 2) : IsCollider(cgm, p[i], p[i + 1], p[i + 2])

\* C2: get_all_backdoor_paths(x, y) returns exactly the simple paths from x
\* to y in the undirected shadow graph whose second node is a parent of x.
C2_BackdoorPathsExact ==
    last.op = "get_all_backdoor_paths" =>
        last.ret = BackdoorPathsBetween(cgm, last.x, last.y)

\* C3: for Z disjoint from {x, y}, is_valid_backdoor_adjustment_set(x, y, Z)
\* returns true iff Z holds no descendant of x and every backdoor path from
\* x to y is blocked by Z.
C3_BackdoorValidIffCriterion ==
    (last.op = "is_valid_backdoor_adjustment_set"
        /\ last.z \cap {last.x, last.y} = {}) =>
        /\ last.raised = "none"
        /\ last.ret <=> BackdoorValid(cgm, last.x, last.y, last.z)

\* C4: for Z of observed variables disjoint from {x, y},
\* is_valid_frontdoor_adjustment_set(x, y, Z) returns true iff every directed
\* path from x to y holds a member of Z, every backdoor path from x to a z in
\* Z is blocked by Z \ {z}, and {x} is a valid backdoor adjustment set for
\* (z, y) for every z in Z.
C4_FrontdoorValidIffCriterion ==
    last.op = "is_valid_frontdoor_adjustment_set" =>
        /\ last.raised = "none"
        /\ last.ret <=> FrontdoorValid(cgm, last.x, last.y, last.z)

\* C5: get_all_backdoor_adjustment_sets(x, y) returns exactly the subsets Z
\* of observed_variables \ {x, y} that is_valid_backdoor_adjustment_set(x, y,
\* Z) accepts; so it is empty iff none is accepted, it holds the empty set
\* iff the empty set is accepted, and no set of it holds x, y or a
\* descendant of x.
C5_AllBackdoorSetsExact ==
    last.op = "get_all_backdoor_adjustment_sets" =>
        LET candidates == SUBSET (cgm.observed_variables \ {last.x, last.y})
            accepted == {Z \in candidates :
                            IsValidBackdoorAdjustmentSet(
                                cgm, last.x, last.y, SetArg(Z)).ret}
        IN  /\ last.raised = "none"
            /\ last.ret = accepted
            /\ (last.ret = {}) <=> (accepted = {})
            /\ ({} \in last.ret) <=>
                   IsValidBackdoorAdjustmentSet(
                       cgm, last.x, last.y, SetArg({})).ret
            /\ \A Z \in last.ret :
                   /\ last.x \notin Z
                   /\ last.y \notin Z
                   /\ Z \cap DescendantsOf(cgm, last.x) = {}

\* C5 witness: adjustment is needed and possible in more than one way, and
\* some candidate with an ancestor of x is accepted
C5_Witness ==
    /\ last.op = "get_all_backdoor_adjustment_sets"
    /\ {} \notin last.ret
    /\ Cardinality(last.ret) >= 2
    /\ \E Z \in last.ret : \E a \in Z : last.x \in DescendantsOf(cgm, a)

\* C6: every do(node) on an observed node succeeds, and in the graph reached
\* each node intervened on so far is a set node without parents, observed or
\* latent.
C6_DoSucceedsAndCutsParents ==
    last.op = "do" =>
        /\ last.raised = "none"
        /\ \A n \in last.intervened :
             /\ n \in cgm.set_nodes
             /\ ParentsOf(cgm, n) = {}

\* C6 witness: the second of two interventions, on a node that had an
\* observed parent and a latent one
C6_Witness ==
    /\ last.op = "do"
    /\ last.raised = "none"
    /\ Cardinality(last.intervened) >= 2
    /\ ParentsOf(last.before, last.node) \cap last.before.observed_variables # {}
    /\ ParentsOf(last.before, last.node) \cap last.before.unobserved_variables # {}

C8_ConstructorFailsIffCycleOrSetParent ==
    last.op = "construct" =>
        LET cyclic == \E n \in Universe :
                          <<n, n>> \in Closure(last.edges, Universe)
            setParent == \E n \in last.set_nodes :
                             \/ \E e \in last.edges : e[2] = n
                             \/ \E c \in last.latent_edges : n \in {c[1], c[2]}
        IN  /\ (cyclic \/ setParent) <=> (last.raised = "AssertionError" /\ ~ built)
            /\ ~ (cyclic \/ setParent) <=> (last.raised = "none" /\ built)

\* C8 witness: an acyclic graph refused because a set node is confounded
C8_Witness ==
    /\ last.op = "construct"
    /\ last.raised = "AssertionError"
    /\ ~ built
    /\ last.edges = {}
    /\ \E n \in last.set_nodes : \E c \in last.latent_edges : n \in {c[1], c[2]}

\* C9 as stated: is_d_separated(x, y, Z) and
\* is_valid_backdoor_adjustment_set(x, y, Z) fail whenever x or y is in Z.
C9_OverlapRejectedByBoth ==
    (/\ last.op \in {"is_d_separated", "is_valid_backdoor_adjustment_set"}
     /\ last.z \cap {last.x, last.y} # {}) =>
        last.raised = "AssertionError"

\* C9 amended: is_valid_backdoor_adjustment_set(x, y, Z) fails with an
\* assertion error whenever x or y is in Z; is_d_separated(x, y, Z) accepts
\* such a Z and returns a boolean.
C9_OverlapRejectedByBackdoorOnly ==
    /\ (/\ last.op = "is_valid_backdoor_adjustment_set"
        /\ last.z \cap {last.x, last.y} # {}) => last.raised = "AssertionError"
    /\ (/\ last.op = "is_d_separated"
        /\ last.z \cap {last.x, last.y} # {}) =>
           (last.raised = "none" /\ last.ret \in BOOLEAN)

\* C9 witness: an adjustment set that holds the outcome only is refused
C9_Witness ==
    /\ last.op = "is_valid_backdoor_adjustment_set"
    /\ last.y \in last.z
    /\ last.x \notin last.z
    /\ last.raised = "AssertionError"

\* C10: is_d_separated(x, y, Z) equals is_d_separated(y, x, Z).
C10_DSeparationSymmetric ==
    last.op = "is_d_separated" =>
        IsDSeparated(cgm, last.y, last.x, SetArg(last.z))
            = [raised |-> last.raised, ret |-> last.ret]

\* C10 witness: a d-separation along a path that is a chain read from y to x
C10_Witness ==
    /\ last.op = "is_d_separated"
    /\ last.ret
    /\ \E p \in PathsBetween(cgm, last.x, last.y) :
         /\ Len(p) >= 3
         /\ \A i \in 1..(Len(p) - 1) : Arrow(cgm, p[i + 1], p[i])

\* C11: whenever two distinct observed variables x and y are joined by a
\* latent confounder edge, get_all_backdoor_adjustment_sets(x, y) returns the
\* empty set and is_valid_backdoor_adjustment_set(x, y, Z) returns false for
\* every Z of observed variables disjoint from {x, y}.
C11_ConfoundedPairHasNoAdjustmentSet ==
    /\ (/\ last.op = "get_all_backdoor_adjustment_sets"
        /\ Confounded(cgm, last.x, last.y)) =>
           (last.raised = "none" /\ last.ret = {})
    /\ (/\ last.op = "is_valid_backdoor_adjustment_set"
        /\ Confounded(cgm, last.x, last.y)
        /\ last.z \cap {last.x, last.y} = {}) =>
           (last.raised = "none" /\ last.ret = FALSE)

\* C11 witness: a confounded pair with an observed common cause as well; the
\* set refused holds no descendant of x and blocks every backdoor path that
\* runs through observed variables only
C11_Witness ==
    /\ last.op = "is_valid_backdoor_adjustment_set"
    /\ Confounded(cgm, last.x, last.y)
    /\ last.z # {}
    /\ last.z \cap {last.x, last.y} = {}
    /\ last.z \cap DescendantsOf(cgm, last.x) = {}
    /\ last.ret = FALSE
    /\ \E p \in BackdoorPathsBetween(cgm, last.x, last.y) :
         \A i \in DOMAIN p : p[i] \in cgm.observed_variables
    /\ \A p \in BackdoorPathsBetween(cgm, last.x, last.y) :
         (\A i \in DOMAIN p : p[i] \in cgm.observed_variables) =>
             Blocked(cgm, p, last.z)

\* the positions of the list that hold an entry for the unordered pair
\* {x, y} and the set Z
EntriesFor(list, x, y, Z) ==
    {i \in DOMAIN list : {list[i][1], list[i][2]} = {x, y} /\ list[i][3] = Z}

\* C12: get_all_independence_relationships() returns a list that holds
\* exactly one entry (x, y, Z) for each unordered pair {x, y} of distinct
\* observed variables and each subset Z of the other observed variables with
\* is_d_separated(x, y, Z) true, and no other entry; no entry is reported for
\* a pair joined by a direct edge or by a latent confounder, and no latent
\* node is in an entry.
C12_IndependenceListExact ==
    last.op = "get_all_independence_relationships" =>
        /\ last.raised = "none"
        /\ \A x, y \in cgm.observed_variables :
             Rank[x] < Rank[y] =>
                 \A Z \in SUBSET (cgm.observed_variables \ {x, y}) :
                     Cardinality(EntriesFor(last.ret, x, y, Z))
                         = IF IsDSeparated(cgm, x, y, SetArg(Z)).ret THEN 1 ELSE 0
        /\ \A i \in DOMAIN last.ret :
             LET x == last.ret[i][1]
                 y == last.ret[i][2]
                 Z == last.ret[i][3]
             IN  /\ x \in cgm.observed_variables
                 /\ y \in cgm.observed_variables
                 /\ x # y
                 /\ Z \subseteq cgm.observed_variables \ {x, y}
                 /\ ~ Adjacent(cgm, x, y)
                 /\ ~ Confounded(cgm, x, y)
                 /\ ({x, y} \cup Z) \cap cgm.unobserved_variables = {}

\* C12 witness: a graph with a direct edge and a latent confounder whose list
\* holds two entries for one pair and an entry with a non-empty Z that is
\* not separated by the empty set
C12_Witness ==
    /\ last.op = "get_all_independence_relationships"
    /\ cgm.latent_edges # {}
    /\ \E e \in cgm.dag.edges : e[1] \in cgm.observed_variables
    /\ \E i, j \in DOMAIN last.ret :
         /\ i # j
         /\ last.ret[i][1] = last.ret[j][1]
         /\ last.ret[i][2] = last.ret[j][2]
    /\ \E i \in DOMAIN last.ret :
         /\ last.ret[i][3] # {}
         /\ EntriesFor(last.ret, last.ret[i][1], last.ret[i][2], {}) = {}

\* C13: for every StructuralCausalModel and every node of it, do(node)
\* succeeds and returns a model whose causal graph has node in set_nodes
\* with no parents, has no latent confounders, and keeps the parents of
\* every other node.
C13_ModelDoSetsNode ==
    last.op = "StructuralCausalModel.do" =>
        /\ last.raised = "none"
        /\ last.node \in scm.cgm.set_nodes
        /\ ParentsOf(scm.cgm, last.node) = {}
        /\ scm.cgm.latent_edges = {}
        /\ scm.cgm.unobserved_variables = {}
        /\ \A n \in DOMAIN last.before.assignment \ {last.node} :
             ParentsOf(scm.cgm, n) = ParentsOf(last.before.cgm, n)

====
